---- MODULE Spec2Model ----
(***************************************************************************)
(* Model of the API gateway entry point, src/api/api.go: the package      *)
(* variables, run() as a sequence of steps (flags, transport security,    *)
(* router, resolver, handler strategy, plugin wrapping, server, start,    *)
(* service run, stop) and the requests the composed handler serves while  *)
(* the server listens.                                                     *)
(*                                                                         *)
(* Strings that the code takes apart (namespaces, types, request paths,   *)
(* route templates) are sequences of one-character strings; strings that  *)
(* are only compared (handler, resolver and provider names) are strings.  *)
(***************************************************************************)
EXTENDS Integers, Sequences, FiniteSets, TLC

\* ------------------------------------------------------------------ bounds
\* longest namespace flag value
MaxNsLen == 5
\* most plugins registered over both plugin lists
MaxPlugins == 3
\* most requests served while the gateway listens
MaxReq == 2

\* ------------------------------------------------------- package variables
RPCPath == <<"/", "r", "p", "c">>
DefaultNamespace == <<"g", "o", ".", "m", "i", "c", "r", "o">>
DefaultType == <<"a", "p", "i">>
DefaultHandler == "meta"
DefaultResolver == "micro"
DefaultEnableRPC == FALSE
DefaultACMEProvider == "autocert"
DefaultACMEChallengeProvider == "cloudflare"

\* the character class [a-zA-Z0-9] of ProxyPath
Alnum ==
  { "a", "b", "c", "d", "e", "f", "g", "h", "i", "j", "k", "l", "m",
    "n", "o", "p", "q", "r", "s", "t", "u", "v", "w", "x", "y", "z",
    "A", "B", "C", "D", "E", "F", "G", "H", "I", "J", "K", "L", "M",
    "N", "O", "P", "Q", "R", "S", "T", "U", "V", "W", "X", "Y", "Z",
    "0", "1", "2", "3", "4", "5", "6", "7", "8", "9" }

\* route template elements: a literal character, or the variable
\* {service:[a-zA-Z0-9]+}
Lit(c) == [t |-> "lit", c |-> c]
AlnumPlus == [t |-> "alnum+", c |-> ""]

\* APIPath = "/"
APIPath == <<Lit("/")>>
\* ProxyPath = "/{service:[a-zA-Z0-9]+}"
ProxyPath == <<Lit("/"), AlnumPlus>>

Lits(s) == [i \in 1..Len(s) |-> Lit(s[i])]

\* ------------------------------------------------------------ request paths
PathRoot == <<"/">>
PathFavicon == <<"/", "f", "a", "v", "i", "c", "o", "n", ".", "i", "c", "o">>
PathStats == <<"/", "s", "t", "a", "t", "s">>
PathFoo == <<"/", "f", "o", "o">>
PathFooBar == <<"/", "f", "o", "o", "/", "b", "a", "r">>
PathDash == <<"/", "-", "x">>
PathDot == <<"/", ".", "w">>

Paths == {PathRoot, PathFavicon, RPCPath, PathStats, PathFoo, PathFooBar,
          PathDash, PathDot}

\* ------------------------------------------------------------------ strings
HasSuffix(s, suffix) ==
  /\ Len(s) >= Len(suffix)
  /\ SubSeq(s, Len(s) - Len(suffix) + 1, Len(s)) = suffix

\* a plausible slip: the suffix is never removed
TrimSuffixKeep(s, suffix) == s

\* strings.TrimSuffix: s without the suffix, once, when s ends with it
TrimSuffix(s, suffix) ==
  IF HasSuffix(s, suffix) THEN SubSeq(s, 1, Len(s) - Len(suffix)) ELSE s

SeqsUpTo(S, n) == UNION {[1..k -> S] : k \in 0..n}

\* --------------------------------------------------------------- flag rules
\* if len(ctx.String(name)) > 0 { Var = ctx.String(name) }
FlagOr(flag, cur) == IF Len(flag) > 0 THEN flag ELSE cur
NameOr(flag, cur) == IF flag # "" THEN flag ELSE cur

\* if len(ctx.String("enable_rpc")) > 0 { EnableRPC = ctx.Bool("enable_rpc") }
EnableRPCAfter(flag, cur) == IF flag # "" THEN flag = "true" ELSE cur

\* Namespace = strings.TrimSuffix(ctx.String("namespace"), "."+Type)
NamespaceAfter(flag, type, cur) ==
  IF Len(flag) > 0 THEN TrimSuffix(flag, <<".">> \o type) ELSE cur

\* apiNamespace := Namespace + "." + Type
ApiNamespace(ns, type) == ns \o <<".">> \o type

\* ------------------------------------------------------- transport security
\* a plausible slip: an unknown provider name is taken for autocert
ACMEProviderCaseLax(p) == IF p = "certmagic" THEN "certmagic" ELSE "autocert"

\* switch ACMEProvider
ACMEProviderCase(p) ==
  CASE p = "autocert" -> "autocert"
    [] p = "certmagic" -> "certmagic"
    [] OTHER -> "default"

\* a plausible slip: the KV namespace identifier is not checked
CredentialsMissingNoKV(e) == e.CF_API_TOKEN = "" \/ e.CF_ACCOUNT_ID = ""

\* len(apiToken) == 0 || len(accountID) == 0, then len(kvID) == 0
CredentialsMissing(e) ==
  \/ e.CF_API_TOKEN = "" \/ e.CF_ACCOUNT_ID = ""
  \/ e.KV_NAMESPACE_ID = ""

\* a plausible slip: "if" for "else if"
UseStaticTLSNoElse(c) == c.enable_tls

\* } else if ctx.Bool("enable_tls") {
UseStaticTLS(c) == ~c.enable_acme /\ c.enable_tls

NoTLSOutcome ==
  [pc |-> "router", fatal |-> "", opts |-> <<>>, store |-> FALSE,
   challenge |-> "none", provisioner |-> FALSE, tlsErr |-> FALSE]

Fatal(o, why) == [o EXCEPT !.pc = "exited", !.fatal = why]

\* the certmagic case of the provider switch
CertmagicOutcome(o, cp, e, dnsErr) ==
  IF cp # "cloudflare" THEN Fatal(o, "challenge provider")
  ELSE IF CredentialsMissing(e) THEN Fatal(o, "credentials")
  ELSE LET built == [o EXCEPT !.store = TRUE,
                              !.challenge = IF dnsErr THEN "err" ELSE "ok"]
       IN IF dnsErr THEN Fatal(built, "challenge client")
          ELSE [built EXCEPT
                  !.provisioner = TRUE,
                  !.opts = Append(o.opts, "ACMEProvider(certmagic,OnDemand(false))")]

\* if ctx.Bool("enable_acme") { ... } else if ctx.Bool("enable_tls") { ... }
\* and the CORS option that follows
TLSOutcome(c, prov, cp, e, dnsErr, tlsErr) ==
  LET sec ==
        IF c.enable_acme
        THEN LET o == [NoTLSOutcome EXCEPT
                         !.opts = <<"EnableACME(true)", "ACMEHosts">>]
             IN CASE ACMEProviderCase(prov) = "autocert" ->
                       [o EXCEPT !.opts = Append(o.opts, "ACMEProvider(autocert)")]
                  [] ACMEProviderCase(prov) = "certmagic" ->
                       CertmagicOutcome(o, cp, e, dnsErr)
                  [] OTHER -> Fatal(o, "provider")
        ELSE NoTLSOutcome
      tls ==
        IF sec.pc = "router" /\ UseStaticTLS(c)
        THEN IF tlsErr
             THEN [sec EXCEPT !.pc = "returned", !.tlsErr = TRUE]
             ELSE [sec EXCEPT !.opts = sec.opts \o <<"EnableTLS(true)", "TLSConfig">>]
        ELSE sec
  IN IF tls.pc = "router" /\ c.enable_cors
     THEN [tls EXCEPT !.opts = Append(tls.opts, "EnableCORS(true)")]
     ELSE tls

\* ------------------------------------------------------------------ handlers
\* a handler is the sequence of its stages, outermost first; the innermost
\* stage is the router
Stage(kind, id) == [kind |-> kind, id |-> id]
RouterStage == Stage("router", "")
StatsStage == Stage("stats", "")
AuthStage == Stage("auth", "")
PluginStage(p) == Stage("plugin", p)

\* wrapper(h): the wrapper's stage around h
Wrap(stage, hh) == <<stage>> \o hh

RECURSIVE ComposeFrom(_, _, _)
\* for i := len(plugins); i > 0; i-- { h = plugins[i-1].Handler()(h) }
ComposeFrom(ps, i, hh) ==
  IF i = 0 THEN hh ELSE ComposeFrom(ps, i - 1, Wrap(PluginStage(ps[i]), hh))

RECURSIVE ComposeUpTo(_, _, _)
ComposeUpTo(ps, i, hh) ==
  IF i > Len(ps) THEN hh ELSE ComposeUpTo(ps, i + 1, Wrap(PluginStage(ps[i]), hh))

\* a plausible slip: the plugins are wrapped first to last
ComposePluginsForward(ps, hh) == ComposeUpTo(ps, 1, hh)

\* plugins := append(Plugins(), plugin.Plugins()...), wrapped last to first
ComposePlugins(ps, hh) == ComposeFrom(ps, Len(ps), hh)

\* a plausible slip: the server's wrappers are not applied to the handler
ServerHandleBare(ws, hh) == hh

RECURSIVE ServerHandle(_, _)
\* httpapi.NewServer(Address, server.WrapHandler(authWrapper)); api.Handle("/", h)
ServerHandle(ws, hh) ==
  IF ws = <<>> THEN hh ELSE ServerHandle(Tail(ws), Wrap(Head(ws), hh))

\* -------------------------------------------------------------------- router
Route(match, tpl, handler) == [match |-> match, tpl |-> tpl, handler |-> handler]

Fixed(name) == [name |-> name, kind |-> "", resolver |-> "", namespace |-> <<>>]
Strategy(kind, resolver, ns) ==
  [name |-> "strategy", kind |-> kind, resolver |-> resolver, namespace |-> ns]
NotFound == Fixed("404")

RECURSIVE Matches(_, _, _)
\* the template against the path: anchored at both ends, or, for a prefix
\* route, at the start only
Matches(tpl, s, prefix) ==
  IF tpl = <<>> THEN prefix \/ s = <<>>
  ELSE IF s = <<>> THEN FALSE
  ELSE IF Head(tpl).t = "lit"
       THEN Head(tpl).c = Head(s) /\ Matches(Tail(tpl), Tail(s), prefix)
       ELSE /\ Head(s) \in Alnum
            /\ \/ Matches(Tail(tpl), Tail(s), prefix)
               \/ Matches(tpl, Tail(s), prefix)

RouteMatches(rt, path) == Matches(rt.tpl, path, rt.match = "prefix")

RECURSIVE MatchLast(_, _)
\* a plausible slip: the route registered last wins
MatchLast(rts, path) ==
  IF rts = <<>> THEN NotFound
  ELSE IF RouteMatches(rts[Len(rts)], path) THEN rts[Len(rts)].handler
  ELSE MatchLast(SubSeq(rts, 1, Len(rts) - 1), path)

RECURSIVE Match(_, _)
\* the router serves a request by the first registered route that matches
Match(rts, path) ==
  IF rts = <<>> THEN NotFound
  ELSE IF RouteMatches(Head(rts), path) THEN Head(rts).handler
  ELSE Match(Tail(rts), path)

\* a plausible slip: "proxy" is not a case of the handler switch
HandlerKindNoProxy(name) ==
  IF name \in {"rpc", "api", "event", "http", "web"} THEN name ELSE "meta"

\* switch Handler
HandlerKind(name) ==
  CASE name = "rpc" -> "rpc"
    [] name = "api" -> "api"
    [] name = "event" -> "event"
    [] name \in {"http", "proxy"} -> "http"
    [] name = "web" -> "web"
    [] OTHER -> "meta"

\* r.PathPrefix(APIPath), and r.PathPrefix(ProxyPath) for the http handler
HandlerPrefix(kind) == IF kind = "http" THEN ProxyPath ELSE APIPath

\* rr := rrmicro.NewResolver(ropts...); switch Resolver
ResolverKind(name) ==
  CASE name = "host" -> "host"
    [] name = "path" -> "path"
    [] name = "grpc" -> "grpc"
    [] OTHER -> "micro"

\* the routes of run() before the handler strategy: /stats, /, /favicon.ico, /rpc
FixedRoutes(stats, rpc) ==
  (IF stats THEN <<Route("path", Lits(PathStats), Fixed("stats"))>> ELSE <<>>)
  \o <<Route("path", Lits(PathRoot), Fixed("version")),
       Route("path", Lits(PathFavicon), Fixed("favicon"))>>
  \o (IF rpc THEN <<Route("path", Lits(RPCPath), Fixed("rpc"))>> ELSE <<>>)

\* ----------------------------------------------------------------- requests
Ev(ev, stage, target) == [ev |-> ev, stage |-> stage, target |-> target]

RECURSIVE ServeHTTP(_, _, _)
\* the events of one request through handler hh: each stage is entered, calls
\* the stage inside it and is left; the auth stage answers 401/403 itself when
\* the request is not authorized; the router dispatches to the matching route
ServeHTTP(hh, rts, req) ==
  LET s == Head(hh) IN
  CASE s.kind = "router" ->
         <<Ev("enter", s, NotFound), Ev("serve", s, Match(rts, req.path)),
           Ev("exit", s, NotFound)>>
    [] s.kind = "auth" /\ ~req.authorized ->
         <<Ev("enter", s, NotFound), Ev("deny", s, NotFound)>>
    [] OTHER ->
         <<Ev("enter", s, NotFound)>> \o ServeHTTP(Tail(hh), rts, req)
           \o <<Ev("exit", s, NotFound)>>

Requests == [path : Paths, authorized : BOOLEAN]
NoRequest == [path |-> <<>>, authorized |-> FALSE, trace |-> <<>>]

\* ------------------------------------------------------------------- state
VARIABLES
  ctx,                    \* the command line flags
  env,                    \* the environment variables
  plugins,                \* Plugins(): the gateway's plugins
  globalPlugins,          \* plugin.Plugins(): the global plugins
  Handler, Resolver, EnableRPC, ACMEProvider, ACMEChallengeProvider,
  Type, Namespace,        \* the package variables
  apiNamespace,
  opts,                   \* the server options
  acme,                   \* what the ACME branch has built
  routes,                 \* the routes of r, in registration order
  h,                      \* the handler being composed
  st,                     \* the stats collector: none, started, stopped
  rr,                     \* the resolver
  nsResolver,             \* the namespace resolver
  mux,                    \* what the server serves under "/"
  pc,                     \* where run() is
  fatal,                  \* why log.Fatal ended the process
  listening,              \* the server accepts requests
  calls,                  \* calls of api.Start, service.Run, api.Stop so far
  service,                \* service.Run has returned, and with what
  nreq,                   \* requests served
  last                    \* the last request and its events

config == <<ctx, env, plugins, globalPlugins>>
globals == <<Handler, Resolver, EnableRPC, ACMEProvider, ACMEChallengeProvider,
             Type, Namespace, apiNamespace>>
tlsvars == <<opts, acme>>
wiring == <<routes, h, st, rr, nsResolver, mux>>
life == <<pc, fatal, listening, calls, service>>
reqs == <<nreq, last>>
vars == <<config, globals, tlsvars, wiring, life, reqs>>

\* ------------------------------------------------------------------- inputs
DefaultCtx ==
  [handler |-> "", resolver |-> "", enable_rpc |-> "", acme_provider |-> "",
   type |-> <<>>, namespace |-> <<>>, enable_acme |-> FALSE,
   enable_tls |-> FALSE, enable_cors |-> TRUE, enable_stats |-> FALSE]

EnvSet == [CF_API_TOKEN : {"", "tok"}, CF_ACCOUNT_ID : {"", "acc"},
           KV_NAMESPACE_ID : {"", "kv"}]
FullEnv == [CF_API_TOKEN |-> "tok", CF_ACCOUNT_ID |-> "acc", KV_NAMESPACE_ID |-> "kv"]

HandlerNames == {"", "rpc", "api", "event", "http", "proxy", "web", "meta", "graphql"}
ResolverNames == {"", "host", "path", "grpc", "micro", "dns"}
ProviderNames == {"", "autocert", "certmagic", "letsencrypt"}
ChallengeProviders == {"cloudflare", "route53"}
BoolFlagValues == {"", "true", "false"}
PluginIds == {"A", "B", "C"}
NsChars == {"a", "."}
TypeFlags == {<<>>, <<"a">>, <<"a", "a">>}

Distinct(s) == \A i, j \in 1..Len(s) : i # j => s[i] # s[j]
PluginLists ==
  {pq \in SeqsUpTo(PluginIds, MaxPlugins) \X SeqsUpTo(PluginIds, MaxPlugins) :
     /\ Len(pq[1]) + Len(pq[2]) <= MaxPlugins
     /\ Distinct(pq[1] \o pq[2])}

\* the state run() is entered in: the package variables hold their defaults
Start(c, e, cp, pq) ==
  /\ ctx = c
  /\ env = e
  /\ plugins = pq[1]
  /\ globalPlugins = pq[2]
  /\ Handler = DefaultHandler
  /\ Resolver = DefaultResolver
  /\ EnableRPC = DefaultEnableRPC
  /\ ACMEProvider = DefaultACMEProvider
  /\ ACMEChallengeProvider = cp
  /\ Type = DefaultType
  /\ Namespace = DefaultNamespace
  /\ apiNamespace = <<>>
  /\ opts = <<>>
  /\ acme = [store |-> FALSE, challenge |-> "none", provisioner |-> FALSE,
             tlsErr |-> FALSE]
  /\ routes = <<>>
  /\ h = <<>>
  /\ st = "none"
  /\ rr = ""
  /\ nsResolver = [type |-> <<>>, namespace |-> <<>>]
  /\ mux = <<>>
  /\ pc = "flags"
  /\ fatal = ""
  /\ listening = FALSE
  /\ calls = [start |-> 0, run |-> 0, stop |-> 0]
  /\ service = [stopped |-> FALSE, err |-> FALSE]
  /\ nreq = 0
  /\ last = NoRequest

\* the transport security flags, the provider names and the environment
InitSecurity ==
  \E a \in BOOLEAN, t \in BOOLEAN, co \in BOOLEAN, p \in ProviderNames,
     e \in EnvSet, cp \in ChallengeProviders :
    Start([DefaultCtx EXCEPT !.enable_acme = a, !.enable_tls = t,
                             !.enable_cors = co, !.acme_provider = p],
          e, cp, <<<<>>, <<>>>>)

\* the handler, the resolver and the optional routes
InitRouting ==
  \E hn \in HandlerNames, rn \in ResolverNames, rpc \in BoolFlagValues,
     s \in BOOLEAN :
    Start([DefaultCtx EXCEPT !.handler = hn, !.resolver = rn,
                             !.enable_rpc = rpc, !.enable_stats = s],
          FullEnv, DefaultACMEChallengeProvider, <<<<"A">>, <<"B">>>>)

\* the two plugin lists
InitPlugins ==
  \E pq \in PluginLists, s \in BOOLEAN :
    Start([DefaultCtx EXCEPT !.enable_stats = s],
          FullEnv, DefaultACMEChallengeProvider, pq)

\* the namespace and type flags
InitNamespace ==
  \E n \in SeqsUpTo(NsChars, MaxNsLen), ty \in TypeFlags :
    Start([DefaultCtx EXCEPT !.namespace = n, !.type = ty],
          FullEnv, DefaultACMEChallengeProvider, <<<<>>, <<>>>>)

Init == InitSecurity \/ InitRouting \/ InitPlugins \/ InitNamespace

\* ------------------------------------------------------------------ actions
\* the flags are read into the package variables; the plugins are initialised
ReadFlags ==
  /\ pc = "flags"
  /\ Handler' = NameOr(ctx.handler, Handler)
  /\ Resolver' = NameOr(ctx.resolver, Resolver)
  /\ EnableRPC' = EnableRPCAfter(ctx.enable_rpc, EnableRPC)
  /\ ACMEProvider' = NameOr(ctx.acme_provider, ACMEProvider)
  /\ Type' = FlagOr(ctx.type, Type)
  /\ Namespace' = NamespaceAfter(ctx.namespace, Type', Namespace)
  /\ apiNamespace' = ApiNamespace(Namespace', Type')
  /\ pc' = "tls"
  /\ UNCHANGED <<config, ACMEChallengeProvider, tlsvars, wiring, fatal,
                 listening, calls, service, reqs>>

\* the transport security options: ACME, or else static TLS, then CORS
ConfigureTLS ==
  /\ pc = "tls"
  /\ \E dnsErr \in BOOLEAN, tlsErr \in BOOLEAN :
       LET o == TLSOutcome(ctx, ACMEProvider, ACMEChallengeProvider, env,
                           dnsErr, tlsErr)
       IN /\ pc' = o.pc
          /\ fatal' = o.fatal
          /\ opts' = o.opts
          /\ acme' = [store |-> o.store, challenge |-> o.challenge,
                      provisioner |-> o.provisioner, tlsErr |-> o.tlsErr]
  /\ UNCHANGED <<config, globals, wiring, listening, calls, service, reqs>>

\* the router, the stats collector, the fixed routes and the /rpc route
BuildRouter ==
  /\ pc = "router"
  /\ routes' = FixedRoutes(ctx.enable_stats, EnableRPC)
  /\ h' = IF ctx.enable_stats THEN Wrap(StatsStage, <<RouterStage>>)
          ELSE <<RouterStage>>
  /\ st' = IF ctx.enable_stats THEN "started" ELSE "none"
  /\ pc' = "resolver"
  /\ UNCHANGED <<config, globals, tlsvars, rr, nsResolver, mux, fatal,
                 listening, calls, service, reqs>>

\* the namespace resolver and the resolver
SelectResolver ==
  /\ pc = "resolver"
  /\ nsResolver' = [type |-> Type, namespace |-> Namespace]
  /\ rr' = ResolverKind(Resolver)
  /\ pc' = "handler"
  /\ UNCHANGED <<config, globals, tlsvars, routes, h, st, mux, fatal,
                 listening, calls, service, reqs>>

\* the handler strategy is registered under its path prefix
RegisterHandler ==
  /\ pc = "handler"
  /\ LET kind == HandlerKind(Handler)
     IN routes' = Append(routes,
                    Route("prefix", HandlerPrefix(kind),
                          Strategy(kind, rr,
                                   IF kind = "meta" THEN nsResolver.namespace
                                   ELSE apiNamespace)))
  /\ pc' = "wrap"
  /\ UNCHANGED <<config, globals, tlsvars, h, st, rr, nsResolver, mux, fatal,
                 listening, calls, service, reqs>>

\* the plugins are wrapped around the handler
WrapPlugins ==
  /\ pc = "wrap"
  /\ h' = ComposePlugins(plugins \o globalPlugins, h)
  /\ pc' = "server"
  /\ UNCHANGED <<config, globals, tlsvars, routes, st, rr, nsResolver, mux,
                 fatal, listening, calls, service, reqs>>

\* the server is created with the auth wrapper and handles "/" with h
CreateServer ==
  /\ pc = "server"
  /\ mux' = ServerHandle(<<AuthStage>>, h)
  /\ pc' = "start"
  /\ UNCHANGED <<config, globals, tlsvars, routes, h, st, rr, nsResolver,
                 fatal, listening, calls, service, reqs>>

\* a plausible slip: the error of api.Start is not looked at
AfterStartAnyway(err) == "run"

\* if err := api.Start(); err != nil { log.Fatal(err) }
AfterStart(err) == IF err THEN "exited" ELSE "run"

\* api.Start: the server listens, or the process ends
StartAPI ==
  /\ pc = "start"
  /\ \E err \in BOOLEAN :
       /\ pc' = AfterStart(err)
       /\ listening' = ~err
       /\ fatal' = IF err THEN "start" ELSE fatal
  /\ calls' = [calls EXCEPT !.start = @ + 1]
  /\ UNCHANGED <<config, globals, tlsvars, wiring, service, reqs>>

\* service.Run is entered and blocks
RunService ==
  /\ pc = "run"
  /\ calls' = [calls EXCEPT !.run = @ + 1]
  /\ pc' = "running"
  /\ UNCHANGED <<config, globals, tlsvars, wiring, fatal, listening, service,
                 reqs>>

\* a plausible slip: the error of service.Run is not fatal
AfterRunAnyway(err) == "stop"

\* if err := service.Run(); err != nil { log.Fatal(err) }
AfterRun(err) == IF err THEN "exited" ELSE "stop"

\* service.Run returns: the backend runtime has stopped
ServiceReturns ==
  /\ pc = "running"
  /\ \E err \in BOOLEAN :
       /\ service' = [stopped |-> TRUE, err |-> err]
       /\ pc' = AfterRun(err)
       /\ listening' = (listening /\ AfterRun(err) # "exited")
       /\ fatal' = IF AfterRun(err) = "exited" THEN "run" ELSE fatal
  /\ UNCHANGED <<config, globals, tlsvars, wiring, calls, reqs>>

\* api.Stop, then run() returns and the deferred st.Stop() runs
StopAPI ==
  /\ pc = "stop"
  /\ calls' = [calls EXCEPT !.stop = @ + 1]
  /\ listening' = FALSE
  /\ \E err \in BOOLEAN :
       /\ pc' = IF err THEN "exited" ELSE "done"
       /\ fatal' = IF err THEN "stop" ELSE fatal
       /\ st' = IF ~err /\ st = "started" THEN "stopped" ELSE st
  /\ UNCHANGED <<config, globals, tlsvars, routes, h, rr, nsResolver, mux,
                 service, reqs>>

\* the listening server serves one request with the handler under "/"
ServeRequest ==
  /\ listening
  /\ nreq < MaxReq
  /\ \E req \in Requests :
       last' = [path |-> req.path, authorized |-> req.authorized,
                trace |-> ServeHTTP(mux, routes, req)]
  /\ nreq' = nreq + 1
  /\ UNCHANGED <<config, globals, tlsvars, wiring, life>>

Next ==
  \/ ReadFlags
  \/ ConfigureTLS
  \/ BuildRouter
  \/ SelectResolver
  \/ RegisterHandler
  \/ WrapPlugins
  \/ CreateServer
  \/ StartAPI
  \/ RunService
  \/ ServiceReturns
  \/ StopAPI
  \/ ServeRequest

Spec == Init /\ [][Next]_vars

\* the main goroutine goes on by itself: once service.Run has returned, the
\* next statement of run() is executed; when service.Run returns is up to the
\* backend runtime
FairSpec == Spec /\ WF_vars(StopAPI)

\* ------------------------------------------------------------ observations
Range(s) == {s[i] : i \in 1..Len(s)}
Reverse(s) == [i \in 1..Len(s) |-> s[Len(s) + 1 - i]]
StagesOf(tr, ev) ==
  LET sel == SelectSeq(tr, LAMBDA e : e.ev = ev)
  IN [i \in 1..Len(sel) |-> sel[i].stage]
Inner(ss) == SelectSeq(ss, LAMBDA x : x.kind \in {"plugin", "router"})
PluginStages(ps) == [i \in 1..Len(ps) |-> PluginStage(ps[i])]
\* the handler the router dispatched the last request to
Served(tr) == SelectSeq(tr, LAMBDA e : e.ev = "serve")
WasServed == nreq > 0 /\ Len(Served(last.trace)) = 1
Target == Served(last.trace)[1].target

PastFlags == pc # "flags"
PastTLS == pc \notin {"flags", "tls"}
ConfigFatals == {"provider", "challenge provider", "credentials", "challenge client"}
Configured == PastTLS /\ fatal \notin ConfigFatals /\ ~acme.tlsErr
Registered == Configured /\ pc \notin {"router", "resolver", "handler"}
Composed == Registered /\ pc # "wrap"
Terminated == pc \in {"exited", "returned", "done"}
SecurityOpts == SelectSeq(opts, LAMBDA o : o # "EnableCORS(true)")

\* ------------------------------------------------------------------- claims

\* C1: the plugins are folded over Plugins() ++ plugin.Plugins() from last to
\* first, so the composed handler has the plugins outermost first in
\* registration order around the handler built before them; every request
\* handed to the composed handler enters the plugins in registration order,
\* then the router, and leaves them in the opposite order.
C1_PluginOrder ==
  LET want == PluginStages(plugins \o globalPlugins) IN
  /\ Composed =>
       /\ SubSeq(h, 1, Len(want)) = want
       /\ SubSeq(h, Len(want) + 1, Len(h))
            = (IF ctx.enable_stats THEN <<StatsStage>> ELSE <<>>) \o <<RouterStage>>
  /\ (nreq > 0 /\ last.authorized) =>
       /\ Inner(StagesOf(last.trace, "enter")) = want \o <<RouterStage>>
       /\ Inner(StagesOf(last.trace, "exit")) = <<RouterStage>> \o Reverse(want)

C1_Witness ==
  /\ plugins = <<"A">>
  /\ globalPlugins = <<"B", "C">>
  /\ nreq > 0
  /\ last.authorized
  /\ Inner(StagesOf(last.trace, "enter"))
       = <<PluginStage("A"), PluginStage("B"), PluginStage("C"), RouterStage>>

\* C2 (as stated): for any configured (non-empty) root R and type T, the
\* namespace flag R+"."+T yields the same Namespace and apiNamespace as the
\* namespace flag R.
C2_AnyRoot ==
  LET sfx == <<".">> \o Type IN
  (PastFlags /\ HasSuffix(ctx.namespace, sfx)) =>
    LET R == SubSeq(ctx.namespace, 1, Len(ctx.namespace) - Len(sfx))
        fromR == NamespaceAfter(R, Type, DefaultNamespace)
    IN R # <<>> =>
         /\ Namespace = fromR
         /\ apiNamespace = ApiNamespace(fromR, Type)

\* C2 (amended): for any configured (non-empty) root R that does not itself
\* end in "."+T, the namespace flag R+"."+T yields the same Namespace and
\* apiNamespace as the namespace flag R.
C2_PlainRoot ==
  LET sfx == <<".">> \o Type IN
  (PastFlags /\ HasSuffix(ctx.namespace, sfx)) =>
    LET R == SubSeq(ctx.namespace, 1, Len(ctx.namespace) - Len(sfx))
        fromR == NamespaceAfter(R, Type, DefaultNamespace)
    IN (R # <<>> /\ ~HasSuffix(R, sfx)) =>
         /\ Namespace = fromR
         /\ apiNamespace = ApiNamespace(fromR, Type)

C2_Witness ==
  /\ PastFlags
  /\ ctx.namespace = <<"a", ".", "a">>
  /\ Type = <<"a">>
  /\ Namespace = <<"a">>
  /\ apiNamespace = <<"a", ".", "a">>

\* C3: with ACME enabled and provider certmagic, when CF_API_TOKEN,
\* CF_ACCOUNT_ID or KV_NAMESPACE_ID is empty the process exits before the
\* store, the challenge client or the provisioner is built, and api.Start and
\* service.Run are never called.
C3_MissingCredentialsFatal ==
  ( /\ PastTLS
    /\ ctx.enable_acme
    /\ ACMEProvider = "certmagic"
    /\ \/ env.CF_API_TOKEN = ""
       \/ env.CF_ACCOUNT_ID = ""
       \/ env.KV_NAMESPACE_ID = "" ) =>
    /\ pc = "exited"
    /\ ~acme.store
    /\ acme.challenge = "none"
    /\ ~acme.provisioner
    /\ calls.start = 0
    /\ calls.run = 0
    /\ ~listening

C3_Witness ==
  /\ pc = "exited"
  /\ fatal = "credentials"
  /\ ctx.enable_acme
  /\ ACMEProvider = "certmagic"
  /\ env.CF_API_TOKEN # ""
  /\ env.CF_ACCOUNT_ID # ""
  /\ env.KV_NAMESPACE_ID = ""

\* C4 (as stated): the gateway is stopped first and the backend runtime
\* second: whenever the backend runtime has stopped, api.Stop has already
\* been called.
C4_GatewayStopsFirst == service.stopped => calls.stop > 0

\* C4 (amended): the backend runtime stops first and the gateway second:
\* api.Stop is called only once service.Run has returned without an error, and
\* at most once; an error of service.Run or of api.Stop ends the process.
C4_BackendStopsFirst ==
  /\ calls.stop > 0 => (service.stopped /\ ~service.err)
  /\ calls.stop <= 1
  /\ service.err => (pc = "exited" /\ calls.stop = 0)
  /\ fatal = "stop" => (pc = "exited" /\ calls.stop = 1 /\ ~listening)

C4_Witness ==
  /\ pc = "done"
  /\ service.stopped
  /\ calls.stop = 1
  /\ ~listening

\* C5 (as stated, in the form a finite run refutes): once service.Run has
\* returned, with or without an error, the process does not end without
\* api.Stop having been called.
C5_StopAfterAnyReturn ==
  (service.stopped /\ Terminated) => calls.stop > 0

\* C5 (amended): service.Run begins only after api.Start has returned
\* successfully and while the server listens; api.Stop is never called while
\* service.Run has not returned; and whenever service.Run returns without an
\* error, api.Stop is eventually called (an error of service.Run ends the
\* process without api.Stop).
C5_Lifecycle ==
  /\ [][calls'.run > calls.run => (listening /\ calls.start = 1)]_vars
  /\ [](calls.run > 0 => (calls.start = 1 /\ fatal # "start"))
  /\ [](calls.stop > 0 => (calls.run = 1 /\ service.stopped))
  /\ [](service.err => calls.stop = 0)
  /\ ((service.stopped /\ ~service.err) ~> (calls.stop = 1))

C5_Witness ==
  /\ service.stopped
  /\ ~service.err
  /\ calls.start = 1
  /\ calls.run = 1
  /\ calls.stop = 1

\* C6: the auth wrapper is the outermost stage of what the server serves: on
\* every request, on every path, it is entered first and left last, and when
\* the request is not authorized no plugin, stats, router or handler stage is
\* entered and no route serves it.
C6_AuthOutermost ==
  /\ mux # <<>> =>
       (Head(mux) = AuthStage /\ \A i \in 2..Len(mux) : mux[i] # AuthStage)
  /\ nreq > 0 =>
       /\ last.trace[1] = Ev("enter", AuthStage, NotFound)
       /\ StagesOf(last.trace, "enter")[1] = AuthStage
       /\ last.authorized =>
            /\ last.trace[Len(last.trace)] = Ev("exit", AuthStage, NotFound)
            /\ Len(Served(last.trace)) = 1
       /\ ~last.authorized =>
            /\ \A i \in 1..Len(last.trace) : last.trace[i].stage = AuthStage
            /\ Served(last.trace) = <<>>

C6_Witness ==
  /\ nreq > 0
  /\ ~last.authorized
  /\ last.path = PathStats
  /\ ctx.enable_stats
  /\ plugins # <<>>
  /\ last.trace = <<Ev("enter", AuthStage, NotFound), Ev("deny", AuthStage, NotFound)>>

\* C7: for every handler name exactly one handler strategy is registered on
\* the router: rpc, api, event, http (for http and proxy), web, or meta for
\* any other name; it is bound to the one resolver chosen from the resolver
\* name: host, path, grpc, or the default for any other name; both stay as
\* chosen from then on.
C7_OneStrategy ==
  LET hn == IF ctx.handler = "" THEN "meta" ELSE ctx.handler
      rn == IF ctx.resolver = "" THEN "micro" ELSE ctx.resolver
      kind == CASE hn \in {"rpc", "api", "event", "web"} -> hn
                [] hn \in {"http", "proxy"} -> "http"
                [] OTHER -> "meta"
      res == IF rn \in {"host", "path", "grpc"} THEN rn ELSE "micro"
      strategies == SelectSeq(routes, LAMBDA r : r.handler.name = "strategy")
  IN /\ ~Registered => strategies = <<>>
     /\ Registered =>
          /\ Len(strategies) = 1
          /\ strategies[1].handler.kind = kind
          /\ strategies[1].handler.resolver = res
          /\ routes[Len(routes)] = strategies[1]
          /\ rr = res
          /\ Handler = hn
          /\ Resolver = rn

C7_Witness ==
  /\ listening
  /\ ctx.handler = "proxy"
  /\ ctx.resolver = "dns"
  /\ routes[Len(routes)].handler = Strategy("http", "micro", apiNamespace)

\* the fixed route a path is served by, "" when it is none of them
FixedRouteOf(path) ==
  CASE path = PathRoot -> "version"
    [] path = PathFavicon -> "favicon"
    [] path = RPCPath /\ EnableRPC -> "rpc"
    [] path = PathStats /\ ctx.enable_stats -> "stats"
    [] OTHER -> ""

\* C8 (as stated): for every handler strategy, a request on a fixed route is
\* served by that route's own handler and a request on any other path by the
\* handler strategy ("/rpc" and "/stats" are fixed routes only when enabled).
C8_OtherPathsToStrategy ==
  WasServed =>
    IF FixedRouteOf(last.path) # ""
    THEN Target = Fixed(FixedRouteOf(last.path))
    ELSE Target.name = "strategy"

\* C8 (amended): a request on a fixed route is served by that route's own
\* handler; a request on any other path is served by the handler strategy,
\* except under the http/proxy strategy, which is registered under
\* "/{service:[a-zA-Z0-9]+}": there a path whose first character after "/"
\* is not alphanumeric matches no route and is answered by the router (404).
C8_Routing ==
  WasServed =>
    IF FixedRouteOf(last.path) # ""
    THEN Target = Fixed(FixedRouteOf(last.path))
    ELSE IF Handler \in {"http", "proxy"} /\ last.path[2] \notin Alnum
         THEN Target = NotFound
         ELSE Target = routes[Len(routes)].handler /\ Target.name = "strategy"

C8_Witness ==
  /\ WasServed
  /\ Handler = "proxy"
  /\ last.path = PathDash
  /\ Target = NotFound

\* C9 (as stated): for every configuration whose ACME provider name is not
\* autocert or certmagic, or whose DNS challenge provider is not cloudflare,
\* or whose challenge client cannot be built, api.Start is never called and
\* the server never listens.
C9_BadProviderAlwaysFatal ==
  ( /\ PastTLS
    /\ \/ ACMEProvider \notin {"autocert", "certmagic"}
       \/ ACMEChallengeProvider # "cloudflare"
       \/ acme.challenge = "err" ) =>
    (calls.start = 0 /\ ~listening)

\* C9 (amended): when ACME is enabled, a provider name that is not autocert
\* or certmagic ends the process during startup, and so does, under provider
\* certmagic, a DNS challenge provider that is not cloudflare or a challenge
\* client that cannot be built; api.Start is never called.
C9_BadProviderFatalUnderACME ==
  ( /\ PastTLS
    /\ ctx.enable_acme
    /\ \/ ACMEProvider \notin {"autocert", "certmagic"}
       \/ /\ ACMEProvider = "certmagic"
          /\ \/ ACMEChallengeProvider # "cloudflare"
             \/ acme.challenge = "err" ) =>
    (pc = "exited" /\ fatal \in ConfigFatals /\ calls.start = 0 /\ ~listening)

C9_Witness ==
  /\ pc = "exited"
  /\ ctx.enable_acme
  /\ ACMEProvider = "letsencrypt"
  /\ fatal = "provider"
  /\ calls.start = 0

\* C10: the transport security options are those of exactly one of four
\* modes: none, static TLS, ACME with autocert, ACME with certmagic and
\* on-demand issuance off; with ACME enabled the static TLS options are never
\* applied, also when both flags are set; and when the static TLS
\* configuration cannot be loaded run() returns and neither api.Start nor
\* service.Run is called.
C10_OneSecurityMode ==
  LET none == <<>>
      static == <<"EnableTLS(true)", "TLSConfig">>
      auto == <<"EnableACME(true)", "ACMEHosts", "ACMEProvider(autocert)">>
      magic == <<"EnableACME(true)", "ACMEHosts",
                 "ACMEProvider(certmagic,OnDemand(false))">>
  IN /\ Configured =>
          /\ SecurityOpts \in {none, static, auto, magic}
          /\ ctx.enable_acme => SecurityOpts \in {auto, magic}
          /\ (ctx.enable_acme /\ ACMEProvider = "autocert") => SecurityOpts = auto
          /\ (ctx.enable_acme /\ ACMEProvider = "certmagic") => SecurityOpts = magic
          /\ (~ctx.enable_acme /\ ctx.enable_tls) => SecurityOpts = static
          /\ (~ctx.enable_acme /\ ~ctx.enable_tls) => SecurityOpts = none
     /\ ctx.enable_acme => "EnableTLS(true)" \notin Range(opts)
     /\ acme.tlsErr =>
          /\ pc = "returned"
          /\ ~ctx.enable_acme
          /\ calls.start = 0
          /\ calls.run = 0
          /\ ~listening

C10_Witness ==
  /\ listening
  /\ ctx.enable_acme
  /\ ctx.enable_tls
  /\ SecurityOpts = <<"EnableACME(true)", "ACMEHosts", "ACMEProvider(autocert)">>

====
